---- MODULE Spec2Model ----
(***************************************************************************)
(* Model of imu_demo.c: a complementary-filter tilt estimate from an       *)
(* MPU6050 drives paddle 1 on core 0, an autonomous paddle 2 runs on       *)
(* core 1, and a serial console thread shares core 0 with paddle 1.        *)
(*                                                                         *)
(* fix15 values are modelled as the signed 32-bit integer that holds them. *)
(* TLC's integers are 32 bits wide, so sums that can leave the 32-bit      *)
(* range are computed on 16-bit halves (Add32) and the 64-bit product of   *)
(* multfix15 is computed on 16-bit limbs; both wrap modulo 2^32 as the     *)
(* build's two's-complement arithmetic does.                               *)
(***************************************************************************)
EXTENDS Integers, Sequences, FiniteSets, TLC

\* ------------------------------------------------------------------ bounds

\* Loop iterations of protothread_paddle1 that the model explores.
MaxIter == 41

\* Times the sensor may start reporting a different sample.
MaxChanges == 1

\* Iterations after which the constant-sample run is required to have settled.
SettleIters == 5000

\* ------------------------------------------------- fixed-point arithmetic

\* Number of fractional bits of the fixed-point type (pt_cornell_rp2040_v1.h
\* is not part of the sources; the format is the one the specification
\* states: a signed integer scaled by 2^16).
FracBits == 16

One == 2 ^ FracBits

\* The least and greatest signed 32-bit words.
MinWord == (-32768) * 65536

MaxWord == 32767 * 65536 + 65535

Abs(x) == IF x < 0 THEN -x ELSE x

Sign(x) == IF x < 0 THEN -1 ELSE IF x > 0 THEN 1 ELSE 0

\* The 16-bit halves of a 32-bit word: x = Hi16(x) * 2^16 + Lo16(x).
Hi16(x) == x \div 65536

Lo16(x) == x % 65536

\* A 16-bit pattern read as a signed number.
Sext16(h) == IF h % 65536 >= 32768 THEN (h % 65536) - 65536 ELSE h % 65536

\* x + y on signed 32-bit words, wrapping modulo 2^32.
Add32(x, y) ==
    LET lo == Lo16(x) + Lo16(y)
        hi == Hi16(x) + Hi16(y) + (lo \div 65536)
    IN  Sext16(hi) * 65536 + (lo % 65536)

\* -x on a signed 32-bit word (the most negative word negates to itself).
Neg32(x) == IF x = MinWord THEN x ELSE -x

\* x - y on signed 32-bit words, wrapping modulo 2^32.
Sub32(x, y) == IF y = MinWord THEN Add32(x, MinWord) ELSE Add32(x, -y)

\* Asr as a division that rounds toward zero.
AsrTowardZero(x, n) ==
    IF x >= 0 THEN x \div (2 ^ n) ELSE (x + ((2 ^ n) - 1)) \div (2 ^ n)

\* x >> n on a signed word: gcc's arithmetic shift, which rounds toward
\* minus infinity.
Asr(x, n) == x \div (2 ^ n)

\* floor(a * b / 2^16) for 0 <= a, b < 2^16, without leaving 32 bits.
MulLoLo(a, b) == ((a * (b \div 256)) + ((a * (b % 256)) \div 256)) \div 256

\* int2fix15(a): the integer a as a fixed-point value.
int2fix15(a) == a * One

\* fix2int15(a): the integer part, by a right shift of the word.
fix2int15(a) == Asr(a, FracBits)

\* multfix15(a, b): the double-width product rescaled by 2^-16, the low
\* bits discarded, cast back to 32 bits.
multfix15(a, b) ==
    LET t1 == Sext16(Hi16(a) * Hi16(b)) * 65536
        t2 == Hi16(a) * Lo16(b)
        t3 == Lo16(a) * Hi16(b)
        t4 == MulLoLo(Lo16(a), Lo16(b))
    IN  Add32(Add32(Add32(t1, t2), t3), t4)

\* The k leading fractional bits of r / d, for 0 <= r < d.
RECURSIVE FracQuot(_, _, _)
FracQuot(r, d, k) ==
    IF k = 0 THEN 0
    ELSE IF r >= d - r
         THEN (2 ^ (k - 1)) + FracQuot(r - (d - r), d, k - 1)
         ELSE FracQuot(r + r, d, k - 1)

\* divfix(a, b): (a scaled up by 2^16) / b, C's division (toward zero).
\* Used with b = int2fix15(10) only; the quotient fits the word.
divfix(a, b) ==
    LET n == Abs(a)
        d == Abs(b)
        q == (n \div d) * One + FracQuot(n % d, d, FracBits)
    IN  IF Sign(a) * Sign(b) < 0 THEN -q ELSE q

\* atan(z) in units of 2^-20 rad for a fixed-point z in [0, 1]: the
\* approximation z * (pi/4 + 0.273 * (1 - z)), exact at z = 0 and z = 1 and
\* within 0.22 degrees of the library's value in between.
AtanUnit(z) == multfix15(z, 823550 + multfix15(286261, One - z))

\* |n| / |d| as a fixed-point value in [0, 1], for |n| <= |d|, d # 0.
Ratio(n, d) == IF n = d THEN One ELSE FracQuot(n, d, FracBits)

\* Magnitude of a word as a non-negative TLC integer (the most negative word
\* is taken as the greatest magnitude TLC can hold).
Mag(x) == IF x = MinWord THEN MaxWord ELSE Abs(x)

\* atan2(y, x) in units of 2^-20 rad, for the words y and x converted to
\* floating point by fix2float15 (the scale cancels in the quotient).  pi is
\* 3294199 units, pi/2 is 1647099 units.
atan2(y, x) ==
    LET ay == Mag(y)
        ax == Mag(x)
        sy == IF y < 0 THEN -1 ELSE 1
    IN  IF ax = 0 /\ ay = 0 THEN 0
        ELSE IF ay <= ax
             THEN IF x > 0 THEN sy * AtanUnit(Ratio(ay, ax))
                  ELSE sy * (3294199 - AtanUnit(Ratio(ay, ax)))
             ELSE IF x >= 0 THEN sy * (1647099 - AtanUnit(Ratio(ax, ay)))
                  ELSE sy * (1647099 + AtanUnit(Ratio(ax, ay)))

\* float2fix15 of a value given in units of 2^-20: the nearest fixed-point
\* value.
float2fix15(u) == (u + 8) \div 16

\* The gains of the complementary filter and the radians-to-degrees factor,
\* float2fix15(0.001), float2fix15(0.999), float2fix15(57.2957795).
zeropt001 == 66

zeropt999 == 65470

oneeightyoverpi == 3754936

\* PI of the program, 3.14159265, in units of 2^-20.
PI == 3294199

\* ------------------------------------------------------ program constants

PADDLE1_X == 40

PADDLE2_X == 590

PADDLE_LENGTH == 40

VGA_BOTTOM == 480

\* The draw-speed threshold, in pixels.
threshold == 10

BLACK == 0

WHITE == 15

\* --------------------------------------------- the steps of paddle 1's loop

\* ExponentialSmooth with the difference rounded to the nearest sixteenth.
ExponentialSmoothRounded(prev, sample) ==
    Add32(prev, Asr(Add32(Sub32(sample, prev), 8), 4))

\* ExponentialSmooth with the operands of the subtraction exchanged.
ExponentialSmoothSwapped(prev, sample) == Add32(prev, Asr(Sub32(prev, sample), 4))

\* prev + ((sample - prev) >> 4)
ExponentialSmooth(prev, sample) == Add32(prev, Asr(Sub32(sample, prev), 4))

\* accel_angle: atan2(-filtered_ay, filtered_ax) + PI, in degrees.
AccelAngle(fax, fay) ==
    multfix15(float2fix15(atan2(Neg32(fay), fax) + PI), oneeightyoverpi)

\* gyro_angle_delta: the gyro rate times the time step.
GyroAngleDelta(g) == multfix15(g, zeropt001)

\* ComplementaryAngle with the accelerometer term subtracted.
ComplementaryAngleMinus(ca, gd, aa) ==
    Sub32(multfix15(Add32(ca, gd), zeropt999), multfix15(aa, zeropt001))

\* ComplementaryAngle with the gain 0.999 left out.
ComplementaryAngleNoLeak(ca, gd, aa) ==
    Add32(Add32(ca, gd), multfix15(aa, zeropt001))

\* complementary_angle: 0.999 * (angle + gyro delta) + 0.001 * accel angle.
ComplementaryAngle(ca, gd, aa) ==
    Add32(multfix15(Add32(ca, gd), zeropt999), multfix15(aa, zeropt001))

\* ClampAngle with the test against 180 degrees left out.
ClampAngleNoUpper(fc) == IF fc < 0 THEN 0 ELSE fc

\* The two tests that keep filtered_complementary in [0, 180] degrees.
ClampAngle(fc) ==
    LET hi == IF fc > int2fix15(180) THEN int2fix15(180) ELSE fc
    IN  IF hi < 0 THEN 0 ELSE hi

\* Paddle1Velocity without the 90 degree set point.
Paddle1VelocityNoSetPoint(fc) == divfix(fc, int2fix15(10))

\* paddle1_vy: (angle - 90 degrees) / 10.
Paddle1Velocity(fc) == divfix(Sub32(fc, int2fix15(90)), int2fix15(10))

\* Paddle1Move without the test against 0.
Paddle1MoveNoFloor(y, vy) ==
    IF Add32(Add32(y, vy), int2fix15(PADDLE_LENGTH)) >= int2fix15(VGA_BOTTOM)
    THEN int2fix15(VGA_BOTTOM - PADDLE_LENGTH)
    ELSE Add32(y, vy)

\* Paddle1Move with the paddle's length left out of the test against the
\* bottom of the screen.
Paddle1MoveNoLength(y, vy) ==
    IF Add32(y, vy) <= 0 THEN 0
    ELSE IF Add32(y, vy) >= int2fix15(VGA_BOTTOM)
         THEN int2fix15(VGA_BOTTOM - PADDLE_LENGTH)
         ELSE Add32(y, vy)

\* The new paddle1_y: the if / else-if / else on paddle1_y + paddle1_vy.
Paddle1Move(y, vy) ==
    IF Add32(y, vy) <= 0 THEN 0
    ELSE IF Add32(Add32(y, vy), int2fix15(PADDLE_LENGTH)) >= int2fix15(VGA_BOTTOM)
         THEN int2fix15(VGA_BOTTOM - PADDLE_LENGTH)
         ELSE Add32(y, vy)

\* Paddle2Velocity with the comparison of the test against VGA_BOTTOM turned
\* round (<= for >=).
Paddle2VelocityFlipped(y, vy) ==
    LET up == IF y <= 0 THEN int2fix15(5) ELSE vy
    IN  IF Add32(y, int2fix15(PADDLE_LENGTH)) <= int2fix15(VGA_BOTTOM)
        THEN int2fix15(-5) ELSE up

\* The new paddle2_vy: the two boundary tests of the bounce rule.
Paddle2Velocity(y, vy) ==
    LET up == IF y <= 0 THEN int2fix15(5) ELSE vy
    IN  IF Add32(y, int2fix15(PADDLE_LENGTH)) >= int2fix15(VGA_BOTTOM)
        THEN int2fix15(-5) ELSE up

\* ------------------------------------------------------------------ state

VARIABLES
    acceleration,            \* fix15 acceleration[3], written by mpu6050_read_raw
    gyro,                    \* fix15 gyro[3]
    accel_angle,
    gyro_angle_delta,
    complementary_angle,
    filtered_complementary,
    filtered_ax,
    filtered_ay,
    paddle1_y,
    paddle1_vy,
    paddle2_y,
    paddle2_vy,
    paddle1_pc,              \* where protothread_paddle1 is in its loop
    paddle2_pc,              \* where protothread_paddle2 is in its loop
    serial_pc,               \* where protothread_serial is in its loop
    uart_rx,                 \* the line typed at the console and not yet read, or NoLine
    prompts,                 \* classifier prompts protothread_serial has written
    running,                 \* per core: "sched", or the thread that holds the core
    sched_next,              \* per core: index of the thread the scheduler resumes next
    resumed,                 \* per core: the threads resumed so far, in order
    vga,                     \* the white paddle rectangles in the frame buffer, <<x, y>>
    drew,                    \* per paddle thread: issued a drawRect since it last suspended
    vsync_observed,          \* per paddle thread: waited for vsync since it last suspended
    last_white,              \* per paddle thread: y of its latest WHITE drawRect, or NoRect
    iter,                    \* loop iterations protothread_paddle1 has started
    changes                  \* times the sensor has started reporting another sample

vars == <<acceleration, gyro, accel_angle, gyro_angle_delta, complementary_angle,
          filtered_complementary, filtered_ax, filtered_ay, paddle1_y, paddle1_vy,
          paddle2_y, paddle2_vy, paddle1_pc, paddle2_pc, serial_pc, uart_rx, prompts,
          running, sched_next, resumed, vga, drew, vsync_observed, last_white, iter,
          changes>>

filter_vars == <<accel_angle, gyro_angle_delta, complementary_angle,
                 filtered_complementary, filtered_ax, filtered_ay>>

sensor_vars == <<acceleration, gyro, iter, changes>>

serial_vars == <<serial_pc, uart_rx, prompts>>

core0_vars == <<acceleration, gyro, filter_vars, paddle1_y, paddle1_vy, paddle1_pc,
                serial_vars, iter, changes>>

core1_vars == <<paddle2_y, paddle2_vy, paddle2_pc>>

NoRect == 0 - 1

NoLine == "none"

\* The lines typed at the console: the classifier 'p', a classifier the
\* thread does not handle, and text that is not a classifier at all.
Lines == {"p", "i", "7x"}

\* The lines that are not a command protothread_serial handles.
MalformedLines == {l \in Lines : l # "p"}

\* Domain0Threads with the two pt_add_thread calls of main exchanged.
Domain0ThreadsExchanged == <<"paddle1", "serial">>

\* The threads of each core in the order of the pt_add_thread calls: main
\* registers protothread_serial then protothread_paddle1, core1_entry
\* registers protothread_paddle2.
Domain0Threads == <<"serial", "paddle1">>

Domain1Threads == <<"paddle2">>

DomainThreads(core) == IF core = 0 THEN Domain0Threads ELSE Domain1Threads

\* A raw sample <<acceleration[1], acceleration[2], gyro[0]>> as the two
\* arrays mpu6050_read_raw fills (the other entries are not read).
SampleAccel(s) == [i \in 0..2 |-> IF i = 1 THEN s[1] ELSE IF i = 2 THEN s[2] ELSE 0]

SampleGyro(s) == [i \in 0..2 |-> IF i = 0 THEN s[3] ELSE 0]

\* Level orientation at rest: gravity on acceleration[2], no rotation.
LevelSample == <<0, One, 0>>

\* The samples the sensor reports: level, and the two extreme gyro rates
\* with the arm pointing along acceleration[1].
Samples == {LevelSample, <<-One, 0, MaxWord>>, <<One, -One, MinWord>>}

\* State at pt_schedule_start on both cores: the file-scope initialisers,
\* zero for the objects without one, and the sample main read.
InitWith(samples) ==
    /\ \E s \in samples : acceleration = SampleAccel(s) /\ gyro = SampleGyro(s)
    /\ accel_angle = 0
    /\ gyro_angle_delta = 0
    /\ complementary_angle = 0
    /\ filtered_complementary = 0
    /\ filtered_ax = 0
    /\ filtered_ay = 0
    /\ paddle1_y = int2fix15(240)
    /\ paddle1_vy = 0
    /\ paddle2_y = int2fix15(240)
    /\ paddle2_vy = 0
    /\ paddle1_pc = "erase"
    /\ paddle2_pc = "erase"
    /\ serial_pc = "prompt"
    /\ uart_rx = NoLine
    /\ prompts = 0
    /\ running = [core \in 0..1 |-> "sched"]
    /\ sched_next = [core \in 0..1 |-> 1]
    /\ resumed = [core \in 0..1 |-> <<>>]
    /\ vga = {}
    /\ drew = [t \in {"paddle1", "paddle2"} |-> FALSE]
    /\ vsync_observed = [t \in {"paddle1", "paddle2"} |-> FALSE]
    /\ last_white = [t \in {"paddle1", "paddle2"} |-> NoRect]
    /\ iter = 0
    /\ changes = 0

Init == InitWith(Samples)

\* ----------------------------------------------------------- the scheduler

\* The scheduler of a core resumes the next thread of its list, in
\* registration order, when the running thread has returned to it.
Schedule(core) ==
    /\ running[core] = "sched"
    /\ running' = [running EXCEPT ![core] = DomainThreads(core)[sched_next[core]]]
    /\ resumed' = [resumed EXCEPT ![core] = Append(@, DomainThreads(core)[sched_next[core]])]
    /\ sched_next' = [sched_next EXCEPT ![core] = (@ % Len(DomainThreads(core))) + 1]
    /\ UNCHANGED <<core0_vars, core1_vars, vga, drew, vsync_observed, last_white>>

\* --------------------------------------------------------- drawRect calls

\* drawRect(x, y, 10, PADDLE_LENGTH, color) on the frame buffer.
drawRect(fb, x, y, color) ==
    IF color = WHITE THEN fb \cup {<<x, y>>} ELSE fb \ {<<x, y>>}

\* ----------------------------------------------------- protothread_paddle1

\* drawRect(PADDLE1_X, fix2int15(paddle1_y), 10, PADDLE_LENGTH, BLACK)
Paddle1Erase ==
    /\ running[0] = "paddle1"
    /\ paddle1_pc = "erase"
    /\ vga' = drawRect(vga, PADDLE1_X, fix2int15(paddle1_y), BLACK)
    /\ drew' = [drew EXCEPT !["paddle1"] = TRUE]
    /\ paddle1_pc' = "filter"
    /\ UNCHANGED <<sensor_vars, filter_vars, paddle1_y, paddle1_vy, core1_vars, serial_vars,
                   running, sched_next, resumed, vsync_observed, last_white>>

\* mpu6050_read_raw and the filter: the two accelerometer low-pass filters,
\* the accelerometer angle, the gyro delta, the complementary angle, its
\* low-pass filter and the clamp, with the arrays holding the sample s.
Paddle1Filter(s) ==
    /\ running[0] = "paddle1"
    /\ paddle1_pc = "filter"
    /\ acceleration' = SampleAccel(s)
    /\ gyro' = SampleGyro(s)
    /\ filtered_ax' = ExponentialSmooth(filtered_ax, acceleration'[1])
    /\ filtered_ay' = ExponentialSmooth(filtered_ay, acceleration'[2])
    /\ accel_angle' = AccelAngle(filtered_ax', filtered_ay')
    /\ gyro_angle_delta' = GyroAngleDelta(gyro'[0])
    /\ complementary_angle' =
           ComplementaryAngle(complementary_angle, gyro_angle_delta', accel_angle')
    /\ filtered_complementary' =
           ClampAngle(ExponentialSmooth(filtered_complementary, complementary_angle'))
    /\ paddle1_pc' = "move"
    /\ UNCHANGED <<paddle1_y, paddle1_vy, core1_vars, serial_vars, running, sched_next,
                   resumed, vga, drew, vsync_observed, last_white>>

\* The sample the driver reported last.
CurrentSample == <<acceleration[1], acceleration[2], gyro[0]>>

\* One filter step on a sensor that reports the sample it reported last or,
\* a bounded number of times, another one.
Paddle1Read ==
    /\ iter < MaxIter
    /\ \E s \in Samples :
          /\ s # CurrentSample => changes < MaxChanges
          /\ Paddle1Filter(s)
          /\ changes' = IF s # CurrentSample THEN changes + 1 ELSE changes
    /\ iter' = iter + 1

\* paddle1_vy from the clamped angle, then the clamped position update.
Paddle1Update ==
    /\ running[0] = "paddle1"
    /\ paddle1_pc = "move"
    /\ paddle1_vy' = Paddle1Velocity(filtered_complementary)
    /\ paddle1_y' = Paddle1Move(paddle1_y, paddle1_vy')
    /\ paddle1_pc' = "draw"
    /\ UNCHANGED <<sensor_vars, filter_vars, core1_vars, serial_vars, running, sched_next,
                   resumed, vga, drew, vsync_observed, last_white>>

\* drawRect(PADDLE1_X, fix2int15(paddle1_y), 10, PADDLE_LENGTH, WHITE); the
\* loop has no suspension point, so the thread goes on to the next iteration.
Paddle1Draw ==
    /\ running[0] = "paddle1"
    /\ paddle1_pc = "draw"
    /\ vga' = drawRect(vga, PADDLE1_X, fix2int15(paddle1_y), WHITE)
    /\ drew' = [drew EXCEPT !["paddle1"] = TRUE]
    /\ last_white' = [last_white EXCEPT !["paddle1"] = fix2int15(paddle1_y)]
    /\ paddle1_pc' = "erase"
    /\ UNCHANGED <<sensor_vars, filter_vars, paddle1_y, paddle1_vy, core1_vars, serial_vars,
                   running, sched_next, resumed, vsync_observed>>

\* ----------------------------------------------------- protothread_paddle2

\* The y of the rectangle paddle 2 erases.  The source names paddl21_y, an
\* identifier it does not declare and one edit away from both paddle1_y and
\* paddle2_y: a build reads one of the two position objects.  This is the
\* build that reads paddle 2's own position.
Paddle2EraseY == fix2int15(paddle2_y)

Paddle2Erase ==
    /\ running[1] = "paddle2"
    /\ paddle2_pc = "erase"
    /\ vga' = drawRect(vga, PADDLE2_X, Paddle2EraseY, BLACK)
    /\ drew' = [drew EXCEPT !["paddle2"] = TRUE]
    /\ paddle2_pc' = "move"
    /\ UNCHANGED <<core0_vars, paddle2_y, paddle2_vy, running, sched_next, resumed,
                   vsync_observed, last_white>>

\* The erase of the build that reads paddle1_y for paddl21_y.
Paddl21EraseY == fix2int15(paddle1_y)

Paddl21Erase ==
    /\ running[1] = "paddle2"
    /\ paddle2_pc = "erase"
    /\ vga' = drawRect(vga, PADDLE2_X, Paddl21EraseY, BLACK)
    /\ drew' = [drew EXCEPT !["paddle2"] = TRUE]
    /\ paddle2_pc' = "move"
    /\ UNCHANGED <<core0_vars, paddle2_y, paddle2_vy, running, sched_next, resumed,
                   vsync_observed, last_white>>

\* The bounce rule: the two boundary tests, then paddle2_y += paddle2_vy.
Paddle2Update ==
    /\ running[1] = "paddle2"
    /\ paddle2_pc = "move"
    /\ paddle2_vy' = Paddle2Velocity(paddle2_y, paddle2_vy)
    /\ paddle2_y' = Add32(paddle2_y, paddle2_vy')
    /\ paddle2_pc' = "draw"
    /\ UNCHANGED <<core0_vars, running, sched_next, resumed, vga, drew, vsync_observed,
                   last_white>>

Paddle2Draw ==
    /\ running[1] = "paddle2"
    /\ paddle2_pc = "draw"
    /\ vga' = drawRect(vga, PADDLE2_X, fix2int15(paddle2_y), WHITE)
    /\ drew' = [drew EXCEPT !["paddle2"] = TRUE]
    /\ last_white' = [last_white EXCEPT !["paddle2"] = fix2int15(paddle2_y)]
    /\ paddle2_pc' = "erase"
    /\ UNCHANGED <<core0_vars, paddle2_y, paddle2_vy, running, sched_next, resumed,
                   vsync_observed>>

\* ------------------------------------------------------ protothread_serial

\* The prompt is written and serial_read spawns the reader, which discards
\* pending input and waits for a character: the thread suspends.
SerialPrompt ==
    /\ running[0] = "serial"
    /\ serial_pc = "prompt"
    /\ serial_pc' = "read_classifier"
    /\ prompts' = prompts + 1
    /\ running' = [running EXCEPT ![0] = "sched"]
    /\ UNCHANGED <<uart_rx, sensor_vars, filter_vars, paddle1_y, paddle1_vy, paddle1_pc, core1_vars,
                   sched_next, resumed, vga, drew, vsync_observed, last_white>>

\* A line arrives from the terminal while the reader serial_read spawned is
\* waiting for one.
UartReceive(l) ==
    /\ serial_pc = "read_classifier"
    /\ uart_rx = NoLine
    /\ uart_rx' = l
    /\ UNCHANGED <<serial_pc, prompts, sensor_vars, filter_vars, paddle1_y, paddle1_vy,
                   paddle1_pc, core1_vars, running, sched_next, resumed, vga, drew,
                   vsync_observed, last_white>>

\* ---------------------------------------------------------- specifications

Core0Step ==
    \/ Schedule(0)
    \/ SerialPrompt
    \/ Paddle1Erase
    \/ Paddle1Read
    \/ Paddle1Update
    \/ Paddle1Draw

Core1Step ==
    \/ Schedule(1)
    \/ Paddle2Erase
    \/ Paddle2Update
    \/ Paddle2Draw

Next == Core0Step \/ Core1Step

Spec == Init /\ [][Next]_vars

\* The end-to-end scenario: the sensor reports the level sample in every
\* iteration, without a bound on the iterations (the count of iterations
\* stops at SettleIters).
Paddle1ReadLevel ==
    /\ Paddle1Filter(LevelSample)
    /\ iter' = IF iter < SettleIters THEN iter + 1 ELSE iter
    /\ UNCHANGED changes

SettleNext ==
    \/ Schedule(0)
    \/ SerialPrompt
    \/ Paddle1Erase
    \/ Paddle1ReadLevel
    \/ Paddle1Update
    \/ Paddle1Draw
    \/ Core1Step

SettleSpec == InitWith({LevelSample}) /\ [][SettleNext]_vars

\* The program of the build that reads paddle1_y for paddl21_y.
Paddl21Core1Step ==
    \/ Schedule(1)
    \/ Paddl21Erase
    \/ Paddle2Update
    \/ Paddle2Draw

Paddl21Next == Core0Step \/ Paddl21Core1Step

Paddl21Spec == Init /\ [][Paddl21Next]_vars

\* Core 1 runs its scheduler and its thread without end.
FairSpec == Spec /\ WF_vars(Core1Step)

\* One filter step on a sensor that goes on reporting the sample it
\* reported last.
Paddle1ReadHeld ==
    /\ iter < MaxIter
    /\ Paddle1Filter(CurrentSample)
    /\ iter' = iter + 1
    /\ UNCHANGED changes

\* The greatest gyro rate (degrees per second) and acceleration (g) the
\* MPU6050 reports, at its widest full-scale settings.
SensorGyroMax == 2000

SensorAccelMax == 16

\* Samples at the ends of the sensor's range: the accelerometer angle at 360
\* degrees with the greatest gyro rate, the accelerometer angle next to 0
\* with the least gyro rate, and both accelerometer axes at their greatest
\* with no rotation.
SensorSamples ==
    {<<int2fix15(-SensorAccelMax), 0, int2fix15(SensorGyroMax)>>,
     <<int2fix15(-SensorAccelMax), 1, int2fix15(-SensorGyroMax)>>,
     <<int2fix15(SensorAccelMax), int2fix15(SensorAccelMax), 0>>}

\* The sensor held at one end of its range, without a bound on the
\* iterations (the count of iterations stops at SettleIters).
RangeRead ==
    /\ Paddle1Filter(CurrentSample)
    /\ iter' = IF iter < SettleIters THEN iter + 1 ELSE iter
    /\ UNCHANGED changes

RangeNext ==
    \/ Schedule(0)
    \/ SerialPrompt
    \/ Paddle1Erase
    \/ RangeRead
    \/ Paddle1Update
    \/ Paddle1Draw
    \/ Core1Step

RangeSpec == InitWith(SensorSamples) /\ [][RangeNext]_vars

\* The program with a terminal attached and the sensor at rest: lines arrive
\* at the console, and each core keeps running its scheduler and its threads.
Paddle1Body ==
    \/ Paddle1Erase
    \/ Paddle1ReadHeld
    \/ Paddle1Update
    \/ Paddle1Draw

\* protothread_paddle1 holds core 0 and has a statement to execute.
Paddle1BodyEnabled ==
    /\ running[0] = "paddle1"
    /\ paddle1_pc = "filter" => iter < MaxIter

ConsoleNext ==
    \/ Schedule(0)
    \/ SerialPrompt
    \/ Paddle1Body
    \/ Core1Step
    \/ \E l \in Lines : UartReceive(l)

\* Core 0 goes on executing: its scheduler and protothread_serial when they
\* can take a step, the body of protothread_paddle1 while it has one.
ConsoleFairness ==
    /\ WF_vars(Schedule(0) \/ SerialPrompt)
    /\ WF_vars(Core1Step)
    /\ <>[]Paddle1BodyEnabled => []<><<Paddle1Body>>_vars

ConsoleSpec == InitWith({LevelSample}) /\ [][ConsoleNext]_vars /\ ConsoleFairness

\* The position update as a function: protothread_paddle1 about to compute
\* paddle1_vy, with the clamped angle and the position drawn from their
\* ranges.
MapAngles == {int2fix15(10 * k) : k \in 0..18}

MapPositions == {int2fix15(p) : p \in {0, 1, 4, 5, 9, 240, 431, 435, 436, 440}}

MapInit ==
    /\ acceleration = SampleAccel(LevelSample)
    /\ gyro = SampleGyro(LevelSample)
    /\ accel_angle = 0
    /\ gyro_angle_delta = 0
    /\ complementary_angle = 0
    /\ filtered_complementary \in MapAngles
    /\ filtered_ax = 0
    /\ filtered_ay = 0
    /\ paddle1_y \in MapPositions
    /\ paddle1_vy = 0
    /\ paddle2_y = int2fix15(240)
    /\ paddle2_vy = 0
    /\ paddle1_pc = "move"
    /\ paddle2_pc = "erase"
    /\ serial_pc = "read_classifier"
    /\ uart_rx = NoLine
    /\ prompts = 1
    /\ running = [core \in 0..1 |-> IF core = 0 THEN "paddle1" ELSE "sched"]
    /\ sched_next = [core \in 0..1 |-> 1]
    /\ resumed = [core \in 0..1 |-> IF core = 0 THEN Domain0Threads ELSE <<>>]
    /\ vga = {}
    /\ drew = [t \in {"paddle1", "paddle2"} |-> t = "paddle1"]
    /\ vsync_observed = [t \in {"paddle1", "paddle2"} |-> FALSE]
    /\ last_white = [t \in {"paddle1", "paddle2"} |-> NoRect]
    /\ iter = 1
    /\ changes = 0

MapNext == Paddle1Update

MapSpec == MapInit /\ [][MapNext]_vars

\* The threads in the middle of a run, protothread_paddle1 holding core 0 at
\* the statement pc of its loop with nothing drawn yet.
MidLoop(pc) ==
    /\ paddle1_pc = pc
    /\ paddle2_pc = "erase"
    /\ serial_pc = "read_classifier"
    /\ uart_rx = NoLine
    /\ prompts = 1
    /\ running = [core \in 0..1 |-> IF core = 0 THEN "paddle1" ELSE "sched"]
    /\ sched_next = [core \in 0..1 |-> 1]
    /\ resumed = [core \in 0..1 |-> IF core = 0 THEN Domain0Threads ELSE <<>>]
    /\ vga = {}
    /\ drew = [t \in {"paddle1", "paddle2"} |-> t = "paddle1"]
    /\ vsync_observed = [t \in {"paddle1", "paddle2"} |-> FALSE]
    /\ last_white = [t \in {"paddle1", "paddle2"} |-> NoRect]
    /\ changes = 0

\* The low-pass filter as a function: the filter of acceleration[1] (line
\* 107) applied again and again to a sample that is held, from every pair of
\* a previous output and a sample drawn from the 32-bit words below.
SmoothWords ==
    {MinWord, MinWord + 1, -(2 * One), -One, -17, -16, -1, 0, 1, 15, 16, 17,
     One, 2 * One, 3 * One, MaxWord - 1, MaxWord}

SmoothInit ==
    /\ \E a \in SmoothWords : acceleration = SampleAccel(<<a, 0, 0>>)
    /\ gyro = SampleGyro(<<0, 0, 0>>)
    /\ accel_angle = 0
    /\ gyro_angle_delta = 0
    /\ complementary_angle = 0
    /\ filtered_complementary = 0
    /\ filtered_ax \in SmoothWords
    /\ filtered_ay = 0
    /\ paddle1_y = int2fix15(240)
    /\ paddle1_vy = 0
    /\ paddle2_y = int2fix15(240)
    /\ paddle2_vy = 0
    /\ iter = 0
    /\ MidLoop("filter")

SmoothStep ==
    /\ running[0] = "paddle1"
    /\ paddle1_pc = "filter"
    /\ filtered_ax' = ExponentialSmooth(filtered_ax, acceleration[1])
    /\ UNCHANGED <<acceleration, gyro, accel_angle, gyro_angle_delta, complementary_angle,
                   filtered_complementary, filtered_ay, paddle1_y, paddle1_vy, paddle1_pc,
                   core1_vars, serial_vars, running, sched_next, resumed, vga, drew,
                   vsync_observed, last_white, iter, changes>>

SmoothSpec == SmoothInit /\ [][SmoothStep]_vars /\ WF_vars(SmoothStep)

\* The conversion to a pixel row as a function: protothread_paddle1 about to
\* draw (line 146), with the position drawn from the words below: quarters
\* from -10 to 10, the words next to zero and the two ends of the range.
IntWords ==
    {i * (One \div 4) : i \in (0 - 40)..40} \cup {MinWord, MinWord + 1, -1, 1, MaxWord}

IntInit ==
    /\ acceleration = SampleAccel(LevelSample)
    /\ gyro = SampleGyro(LevelSample)
    /\ accel_angle = 0
    /\ gyro_angle_delta = 0
    /\ complementary_angle = 0
    /\ filtered_complementary = 0
    /\ filtered_ax = 0
    /\ filtered_ay = 0
    /\ paddle1_y \in IntWords
    /\ paddle1_vy = 0
    /\ paddle2_y = int2fix15(240)
    /\ paddle2_vy = 0
    /\ iter = 1
    /\ MidLoop("draw")

IntSpec == IntInit /\ [][Paddle1Draw]_vars

\* ------------------------------------------------------------------ claims

\* C1: filtered_complementary lies in [0, 180] degrees in every state, so at
\* the end of every iteration and whenever paddle1_vy is computed from it.
C1_AngleClamped ==
    /\ 0 <= filtered_complementary
    /\ filtered_complementary <= int2fix15(180)

\* The clamp has acted: the unclamped angle is above 180 degrees and the
\* filtered angle that paddle1_vy is about to be computed from is 180.
C1_Witness ==
    /\ paddle1_pc = "move"
    /\ complementary_angle > int2fix15(180)
    /\ filtered_complementary = int2fix15(180)

\* C2: paddle1_y lies in [0, 440] pixels in every state, the states between
\* the position update and the draw included.
C2_PositionInRange ==
    /\ 0 <= paddle1_y
    /\ paddle1_y <= int2fix15(440)

\* The paddle has been driven to the upper bound and is about to be drawn.
C2_Witness ==
    /\ paddle1_pc = "draw"
    /\ paddle1_vy > 0
    /\ paddle1_y = int2fix15(440)

\* The reference saturation of v to [lo, hi].
Saturate(v, lo, hi) == IF v < lo THEN lo ELSE IF v > hi THEN hi ELSE v

\* C3: the position update commits clamp(position + velocity, 0, 440): 0
\* when the sum is below 0, 440 when it is above 440, the sum otherwise.
C3_MoveIsClamp ==
    [][(paddle1_pc = "move" /\ paddle1_pc' = "draw") =>
          paddle1_y' = Saturate(paddle1_y + paddle1_vy', 0, int2fix15(440))]_vars

\* From position 0 with velocity -5 the committed position is 0.
C3_Witness ==
    /\ paddle1_pc = "draw"
    /\ paddle1_vy = int2fix15(-5)
    /\ paddle1_y = 0

\* (angle - 90 degrees) / 10, the quotient taken toward zero.
TenthOfError(fc) ==
    Sign(fc - int2fix15(90)) * (Abs(fc - int2fix15(90)) \div 10)

\* C4: paddle1_vy is (angle - 90) / 10 of the clamped angle: 0 at 90
\* degrees, 9 at 180, -9 at 0, and within [-9, 9] in every state.
C4_Velocity ==
    /\ int2fix15(-9) <= paddle1_vy
    /\ paddle1_vy <= int2fix15(9)
    /\ paddle1_pc = "draw" =>
          /\ paddle1_vy = TenthOfError(filtered_complementary)
          /\ Paddle1Velocity(int2fix15(90)) = 0
          /\ Paddle1Velocity(int2fix15(180)) = int2fix15(9)
          /\ Paddle1Velocity(0) = int2fix15(-9)

\* The angle is at its upper bound and the velocity computed from it is 9.
C4_Witness ==
    /\ paddle1_pc = "draw"
    /\ filtered_complementary = int2fix15(180)
    /\ paddle1_vy = int2fix15(9)

\* C5 (as claimed): a paddle thread that has issued a drawRect call since it
\* last suspended has waited for the vertical sync since then.
C5_DrawOnlyAfterVsync ==
    \A t \in {"paddle1", "paddle2"} : drew[t] => vsync_observed[t]

\* The number of times the scheduler of a core has resumed thread t.
Resumptions(core, t) ==
    Cardinality({i \in 1..Len(resumed[core]) : resumed[core][i] = t})

\* C6 (as claimed): every iteration of the control task's loop holds a
\* suspension point, so the task has been resumed once for its first
\* iteration and once more for each later iteration it has started.
C6_SuspendsEveryIteration == iter <= Resumptions(0, "paddle1")

\* C7: on each core the threads are resumed round-robin in the order of the
\* pt_add_thread calls: serial then paddle1 on core 0, paddle2 on core 1.
C7_RoundRobin ==
    /\ \A i \in 1..Len(resumed[0]) :
          resumed[0][i] = (IF i % 2 = 1 THEN "serial" ELSE "paddle1")
    /\ \A i \in 1..Len(resumed[1]) : resumed[1][i] = "paddle2"

\* Both threads of core 0 have been resumed, serial first, and paddle 1 runs.
C7_Witness ==
    /\ resumed[0] = <<"serial", "paddle1">>
    /\ running[0] = "paddle1"
    /\ iter > 0

\* C8 (as claimed): paddle 2 reaches the lower boundary 0 and the upper
\* boundary 440 again and again.
C8_Oscillates ==
    /\ []<>(paddle2_y = 0)
    /\ []<>(paddle2_y = int2fix15(440))

\* C9 (as claimed): a paddle is drawn WHITE only when its position differs
\* by more than threshold pixels from the position of its previous WHITE
\* draw.
C9_RedrawRateLimited ==
    [][\A t \in {"paddle1", "paddle2"} :
          (last_white[t] # NoRect /\ drew'[t] /\
           ((t = "paddle1" /\ paddle1_pc = "draw" /\ paddle1_pc' = "erase") \/
            (t = "paddle2" /\ paddle2_pc = "draw" /\ paddle2_pc' = "erase")))
          => Abs(last_white'[t] - last_white[t]) > threshold]_vars

\* The angle is within 1 degree of 90 and the velocity within 0.1 of 0.
Settled ==
    /\ Abs(filtered_complementary - int2fix15(90)) < One
    /\ Abs(paddle1_vy) * 10 < One

\* C10: with the level sample in every iteration, from the initial filter
\* state, the angle and the velocity are settled once SettleIters iterations
\* have run, and stay settled in every later state.
C10_Settles == iter >= SettleIters => Settled

\* The run has passed SettleIters iterations and has settled, the filter
\* having started from zero and come up through the unsettled range.
C10_Witness ==
    /\ iter = SettleIters
    /\ paddle1_pc = "erase"
    /\ Settled
    /\ paddle1_y = 0

\* C11: a malformed console command changes no gain and stops neither loop:
\* once a line that is not a handled command has been typed, the console
\* task takes it and writes its classifier prompt again.
C11_MalformedReprompts ==
    \A l \in MalformedLines : (uart_rx = l) ~> (uart_rx = NoLine /\ prompts > 1)

\* C12: the two execution domains own disjoint mutable state.  No step of
\* the core-1 task writes the filter state or paddle1_y/paddle1_vy, and none
\* reads them: what it erases is determined by paddle 2's own position.  No
\* step of a core-0 task writes paddle2_y/paddle2_vy.  The filter state
\* changes only in the filter step of protothread_paddle1, one step per
\* loop iteration.
C12_DisjointState ==
    [][/\ Paddl21Core1Step => UNCHANGED <<filter_vars, paddle1_y, paddle1_vy>>
       /\ Paddl21Erase => vga' = drawRect(vga, PADDLE2_X, fix2int15(paddle2_y), BLACK)
       /\ Core0Step => UNCHANGED <<paddle2_y, paddle2_vy>>
       /\ filter_vars' # filter_vars =>
              /\ running[0] = "paddle1"
              /\ paddle1_pc = "filter"
              /\ paddle1_pc' = "move"
              /\ iter' = iter + 1]_vars

\* a - b is representable in the 32-bit word.
NoWrapSub(a, b) ==
    IF a >= b THEN b >= 0 \/ a <= MaxWord + b ELSE b <= 0 \/ a >= MinWord + b

\* out lies between prev and sample, both included.
Between(prev, out, sample) ==
    IF prev <= sample THEN prev <= out /\ out <= sample
    ELSE sample <= out /\ out <= prev

\* C13, as stated: for all 32-bit prev and sample with sample # prev, the
\* output of the filter lies between prev and sample.
C13_NeverOvershoots ==
    [][acceleration[1] # filtered_ax =>
           Between(filtered_ax, filtered_ax', acceleration[1])]_vars

\* C13, amended: for all 32-bit prev and sample whose difference sample -
\* prev is representable in 32 bits, the output of the filter lies between
\* prev and sample.
C13_NeverOvershootsInRange ==
    [][NoWrapSub(acceleration[1], filtered_ax) =>
           Between(filtered_ax, filtered_ax', acceleration[1])]_vars

\* The filter has taken 0 one sixteenth of the way to the sample 1.0.
C13_Witness == acceleration[1] = One /\ filtered_ax = One \div 16

\* a with its fraction dropped: a / 2^16 rounded toward zero.
TruncTowardZero(a) == IF a >= 0 THEN a \div One ELSE (a + (One - 1)) \div One

\* The row of the rectangle protothread_paddle1 has just drawn.
RowDrawn == last_white["paddle1"]

AtFixedPoint == ExponentialSmooth(filtered_ax, acceleration[1]) = filtered_ax

\* C15: with the sample held, each application of the filter moves the
\* output toward the sample and never away from it, and the output comes to
\* rest only on the sample, from above and from below.
C15_NoDrift ==
    /\ [][Between(filtered_ax, filtered_ax', acceleration[1])]_vars
    /\ [](AtFixedPoint => filtered_ax = acceleration[1])
    /\ <>AtFixedPoint

\* C15, amended: with the sample held and a difference between the starting
\* value and the sample that is representable in 32 bits, each application
\* of the filter moves the output toward the sample and never away from it,
\* and the output comes to rest: on the sample when it started above it, and
\* at most 15 units of 2^-16 below the sample when it started below it.
C15_RestsWithinFifteenBelow ==
    /\ [][NoWrapSub(acceleration[1], filtered_ax) =>
              Between(filtered_ax, filtered_ax', acceleration[1])]_vars
    /\ [](AtFixedPoint /\ NoWrapSub(acceleration[1], filtered_ax) =>
              acceleration[1] - filtered_ax \in 0..15)
    /\ NoWrapSub(acceleration[1], filtered_ax) => <>AtFixedPoint

\* The filter has come to rest 15 units below the sample 1.0.
C15_Witness == acceleration[1] = One /\ filtered_ax = One - 15 /\ AtFixedPoint

\* C16: in every state protothread_paddle2 reaches from paddle2_y = 240,
\* paddle2_y lies in [0, 440] pixels, the state right after
\* paddle2_y += paddle2_vy included.
C16_Paddle2InRange ==
    /\ 0 <= paddle2_y
    /\ paddle2_y <= int2fix15(VGA_BOTTOM - PADDLE_LENGTH)

\* protothread_paddle2 has run the two boundary tests and the update, and is
\* about to draw.
C16_Witness ==
    /\ paddle2_pc = "draw"
    /\ last_white["paddle2"] # NoRect
    /\ paddle2_y = Add32(int2fix15(240), paddle2_vy)

\* a + b is representable in the 32-bit word.
NoWrapAdd(a, b) == IF b >= 0 THEN a <= MaxWord - b ELSE a >= MinWord - b

WhiteAt(fb, x) == {r \in fb : r[1] = x}

\* C18: the rectangle an actuator task erases at the start of a loop
\* iteration is the one it drew at the end of the iteration before, so its
\* erase leaves none of its rectangles white, and at any time each actuator
\* has at most one white rectangle in the frame buffer, at its position.
C18_ErasePairsWithDraw ==
    /\ [](/\ WhiteAt(vga, PADDLE1_X) \subseteq {<<PADDLE1_X, fix2int15(paddle1_y)>>}
          /\ WhiteAt(vga, PADDLE2_X) \subseteq {<<PADDLE2_X, fix2int15(paddle2_y)>>})
    /\ [][/\ (paddle1_pc = "erase" /\ paddle1_pc' = "filter") =>
                 WhiteAt(vga', PADDLE1_X) = {}
          /\ (paddle2_pc = "erase" /\ paddle2_pc' = "move") =>
                 WhiteAt(vga', PADDLE2_X) = {}]_vars

====
